---- MODULE Spec2Model ----
(***************************************************************************)
(* Grade-Viewer (src/app.py): a Streamlit script that looks a student up   *)
(* in a Google Sheet by the last six digits of the ID and shows one grade. *)
(*                                                                         *)
(* Text is modelled as a sequence of one-character strings, so that        *)
(* str.strip, str.replace, str.isdigit, len and slicing are computed the   *)
(* way Python computes them.  A cell is a tagged value, as gspread's       *)
(* get_all_records delivers it: a str, an int or a float.                  *)
(***************************************************************************)
EXTENDS Integers, Sequences, FiniteSets, TLC

(***************************************************************************)
(* Bounds of the model.                                                    *)
(***************************************************************************)
\* Sheets have at most MaxRows data rows.
MaxRows == 2

(***************************************************************************)
(* Characters.                                                             *)
(***************************************************************************)
AsciiDigits == {"0", "1", "2", "3", "4", "5", "6", "7", "8", "9"}

\* Characters outside ASCII for which str.isdigit() is True as well.  The
\* token "U+FF11" stands for FULLWIDTH DIGIT ONE, "U+00B2" for SUPERSCRIPT TWO.
UnicodeDigits == {"U+FF11", "U+00B2"}

\* Characters str.strip() removes.
Whitespace == {" ", "\t"}

Max(a, b) == IF a >= b THEN a ELSE b

(***************************************************************************)
(* Python string operations.                                               *)
(***************************************************************************)
\* str.isdigit(): non-empty and every character is a (Unicode) digit.
isdigit(s) ==
    /\ Len(s) > 0
    /\ \A i \in 1..Len(s) : s[i] \in AsciiDigits \cup UnicodeDigits

RECURSIVE lstrip(_)
lstrip(s) ==
    IF s # <<>> /\ Head(s) \in Whitespace THEN lstrip(Tail(s)) ELSE s

RECURSIVE rstrip(_)
rstrip(s) ==
    IF s # <<>> /\ s[Len(s)] \in Whitespace
    THEN rstrip(SubSeq(s, 1, Len(s) - 1))
    ELSE s

\* str.strip()
strip(s) == rstrip(lstrip(s))

\* s.startswith(old)
startswith(s, old) ==
    /\ Len(s) >= Len(old)
    /\ SubSeq(s, 1, Len(old)) = old

\* str.replace(old, new) with a non-empty old: one pass from the left over
\* the non-overlapping occurrences; the result is not scanned again.
RECURSIVE str_replace(_, _, _)
str_replace(s, old, new) ==
    IF s = <<>> THEN <<>>
    ELSE IF startswith(s, old)
         THEN new \o str_replace(SubSeq(s, Len(old) + 1, Len(s)), old, new)
         ELSE <<Head(s)>> \o str_replace(Tail(s), old, new)

\* s[:n] in place of s[-n:]: the first n characters.
last_n_head(s, n) == SubSeq(s, 1, IF Len(s) < n THEN Len(s) ELSE n)

\* s[-n:]: the last n characters, or all of s when it is shorter.
last_n(s, n) == SubSeq(s, Max(1, Len(s) - n + 1), Len(s))

DigitChar == <<"0", "1", "2", "3", "4", "5", "6", "7", "8", "9">>

\* str(n) of a non-negative int.
RECURSIVE int_str(_)
int_str(n) ==
    IF n < 10 THEN <<DigitChar[n + 1]>>
    ELSE int_str(n \div 10) \o <<DigitChar[(n % 10) + 1]>>

(***************************************************************************)
(* Cells.  frac holds the digits after the point of a float, without       *)
(* trailing zeros; it is empty for an integral float, which Python prints  *)
(* with ".0".                                                              *)
(***************************************************************************)
StrCell(s) == [t |-> "str", n |-> 0, frac |-> <<>>, s |-> s]
IntCell(n) == [t |-> "int", n |-> n, frac |-> <<>>, s |-> <<>>]
FloatCell(n, frac) == [t |-> "float", n |-> n, frac |-> frac, s |-> <<>>]

\* str(value) with the empty cell read as a missing value, which pandas
\* prints as "nan".
py_str_nan(c) ==
    CASE c.t = "str" -> IF c.s = <<>> THEN <<"n", "a", "n">> ELSE c.s
      [] c.t = "int" -> int_str(c.n)
      [] c.t = "float" ->
            int_str(c.n) \o <<".">> \o (IF c.frac = <<>> THEN <<"0">> ELSE c.frac)

\* str(value) of a cell
py_str(c) ==
    CASE c.t = "str" -> c.s
      [] c.t = "int" -> int_str(c.n)
      [] c.t = "float" ->
            int_str(c.n) \o <<".">> \o (IF c.frac = <<>> THEN <<"0">> ELSE c.frac)

(***************************************************************************)
(* Configuration (st.secrets): one deployment.                             *)
(***************************************************************************)
\* id_column = "ID"
ID_COL == <<"I", "D">>

PrelimGrade == <<"P", "r", "e", "l", "i", "m", " ", "G", "r", "a", "d", "e">>
FinalGrade == <<"F", "i", "n", "a", "l">>

\* [grade_columns]  "Prelim Grade" = "PG";  "Final" = "FG"
grade_labels == {PrelimGrade, FinalGrade}
GRADE_COLUMNS == (PrelimGrade :> <<"P", "G">>) @@ (FinalGrade :> <<"F", "G">>)

\* [grade_details]  "Prelim Grade" = ["SW", "Q", "EX"]
GRADE_DETAILS == (PrelimGrade :> << <<"S", "W">>, <<"Q">>, <<"E", "X">> >>)

\* GRADE_DETAILS.get(label, [])
grade_details_get(label) ==
    IF label \in DOMAIN GRADE_DETAILS THEN GRADE_DETAILS[label] ELSE <<>>

\* str.lower() on the letters the labels use
LowerChar == ("P" :> "p") @@ ("G" :> "g") @@ ("F" :> "f")
lower(s) ==
    [i \in 1..Len(s) |-> IF s[i] \in DOMAIN LowerChar THEN LowerChar[s[i]] ELSE s[i]]

prelim_grade == <<"p", "r", "e", "l", "i", "m", " ", "g", "r", "a", "d", "e">>

\* st.text_input(..., max_chars=6)
max_chars == 6

(***************************************************************************)
(* The spreadsheet, as ws.get_all_records() delivers it: a header row and  *)
(* the data rows, each cell numericised by gspread (a cell that reads as a *)
(* number is an int or a float, an empty cell is the empty str).           *)
(***************************************************************************)
Headers ==
    { \* every configured column, and one that is nobody's business
      << <<"I", "D">>, <<"P", "G">>, <<"F", "G">>, <<"S", "W">>, <<"Q">>,
         <<"E", "X">>, <<"E", "m", "a", "i", "l">> >>,
      \* header cells typed with blanks around them; two breakdown columns absent
      << <<" ", "I", "D", " ">>, <<"P", "G", " ">>, <<"F", "G">>, <<"S", "W">>,
         <<"E", "m", "a", "i", "l">> >>,
      \* no ID column
      << <<"P", "G">>, <<"F", "G">>, <<"E", "m", "a", "i", "l">> >>,
      \* no "PG" column
      << <<"I", "D">>, <<"F", "G">>, <<"S", "W">>, <<"E", "m", "a", "i", "l">> >>,
      \* two header cells that differ only in a trailing blank
      << <<"I", "D">>, <<"I", "D", " ">>, <<"P", "G">>, <<"F", "G">> >> }

\* What the ID cells of a sheet may hold.
IdCells ==
    { IntCell(123456),                                  \* 123456
      IntCell(23456),                                   \* 023456 typed as a number
      StrCell(<<>>),                                    \* an empty cell
      FloatCell(12, <<"0", "3", "4", "5", "6">>),       \* 12.03456
      StrCell(<<"X", "1", "2", "3", "4", "5", "6", " ">>) }   \* "X123456 "

IdSeqs == UNION { [1..k -> IdCells] : k \in 0..MaxRows }

\* The sheet with header h whose r-th row has ids[r] in every ID cell and a
\* number of its own in every other cell.
MkSheet(h, ids) ==
    [header |-> h,
     rows |-> [r \in 1..Len(ids) |->
                 [j \in 1..Len(h) |->
                    IF strip(h[j]) = ID_COL THEN ids[r] ELSE IntCell(10 * r + j)]]]

Sheets == { MkSheet(h, ids) : h \in Headers, ids \in IdSeqs }

\* Exceptions the gspread calls of load_sheet raise.
LoadErrors == {"APIError", "SpreadsheetNotFound"}

(***************************************************************************)
(* pandas.                                                                 *)
(***************************************************************************)
Column(rows, j) == [r \in 1..Len(rows) |-> rows[r][j]]

IsNumeric(c) == c.t \in {"int", "float"}

\* pd.DataFrame(records) infers one dtype per column: a column of ints and
\* floats becomes float64, its ints becoming integral floats.
coerce(rows, r, j) ==
    LET col == Column(rows, j) IN
    IF /\ rows[r][j].t = "int"
       /\ \A i \in 1..Len(col) : IsNumeric(col[i])
       /\ \E i \in 1..Len(col) : col[i].t = "float"
    THEN FloatCell(rows[r][j].n, <<>>)
    ELSE rows[r][j]

\* pd.DataFrame(records): no records, no columns.
DataFrame(sh) ==
    IF sh.rows = <<>>
    THEN [columns |-> <<>>, rows |-> <<>>]
    ELSE [columns |-> sh.header,
          rows |-> [r \in 1..Len(sh.rows) |->
                      [j \in 1..Len(sh.header) |-> coerce(sh.rows, r, j)]]]

\* load_sheet(), when the gspread calls succeed
load_sheet(sh) ==
    LET df0 == DataFrame(sh) IN
    [columns |-> [j \in 1..Len(df0.columns) |-> strip(df0.columns[j])],
     rows |-> df0.rows]

\* name in df.columns
HasColumn(d, name) == \E j \in 1..Len(d.columns) : d.columns[j] = name

\* the positions of the columns called name
ColumnsNamed(d, name) == { j \in 1..Len(d.columns) : d.columns[j] = name }

\* row.get(name, ""), for a name that one column carries
row_get(d, row, name) ==
    IF HasColumn(d, name)
    THEN row[CHOOSE j \in 1..Len(d.columns) : d.columns[j] = name]
    ELSE StrCell(<<>>)

\* .astype(str).str.replace(".0", "", regex=False).str.strip() on one value
normalize(c) == strip(str_replace(py_str(c), <<".", "0">>, <<>>))

\* the rows of d that mask selects, in order
RECURSIVE boolean_index(_, _, _)
boolean_index(rows, mask, i) ==
    IF i > Len(rows) THEN <<>>
    ELSE (IF mask[i] THEN <<rows[i]>> ELSE <<>>) \o boolean_index(rows, mask, i + 1)

\* find_student(df, last6).  df[ID_COL] is a Series when one column carries
\* the name; when several do it is a DataFrame, which has no .str.
find_student(d, q) ==
    IF Cardinality(ColumnsNamed(d, ID_COL)) # 1
    THEN [raised |-> TRUE, rows |-> <<>>]
    ELSE LET j == CHOOSE k \in ColumnsNamed(d, ID_COL) : TRUE
             ids == [r \in 1..Len(d.rows) |-> normalize(d.rows[r][j])]
             mask == [r \in 1..Len(d.rows) |-> last_n(ids[r], 6) = q]
         IN [raised |-> FALSE, rows |-> boolean_index(d.rows, mask, 1)]

(***************************************************************************)
(* What the script puts on the page: one item per Streamlit call.          *)
(*   w      the call (error, warning, success, metric, dataframe, ...)     *)
(*   msg    which message of the script it is                              *)
(*   names  the column names or the label the call is given                *)
(*   value  the text of the value of a metric                              *)
(*   rows   the cells of a dataframe                                       *)
(***************************************************************************)
Item(w, msg, names, value, rows) ==
    [w |-> w, msg |-> msg, names |-> names, value |-> value, rows |-> rows]

\* What the form offers to submit: st.text_input takes at most max_chars
\* characters.
QueryInputs ==
    { q \in { <<"1", "2", "3", "4", "5", "6">>,
              <<"1", "2", "3", "4", "5">>,
              <<>>,
              <<"1", "2", "a", "4", "5", "6">>,
              <<" ", "2", "3", "4", "5", "6">>,
              <<"0", "2", "3", "4", "5", "6">>,
              <<"U+FF11", "2", "3", "4", "5", "6">>,
              <<"1", "2", "3", "4", "5", "6", "7">> } : Len(q) <= max_chars }

NoDf == [st |-> "none", exc |-> "", columns |-> <<>>, rows |-> <<>>]
OkDf(d) == [st |-> "ok", exc |-> "", columns |-> d.columns, rows |-> d.rows]
ExcDf(e) == [st |-> "exc", exc |-> e, columns |-> <<>>, rows |-> <<>>]

NoMatches == [raised |-> FALSE, rows |-> <<>>]
NoPrev == [st |-> "none", df |-> NoDf, outcome |-> "", output |-> <<>>]

VARIABLES
    sheet,           \* the spreadsheet behind SHEET_ID
    cache,           \* st.cache_data's entry for load_sheet(), or NoDf
    pc,              \* where the script run is
    text_input,      \* the text the form was submitted with
    last6,           \* the script's variable last6
    selected_label,  \* the script's variable selected_label
    df,              \* what load_sheet() gave this run
    matches,         \* what find_student() gave this run
    output,          \* the page of this run
    outcome,         \* how this run ended
    calls,           \* the stages this run has entered, in order
    prev             \* the run before, when this run repeats its submission

vars == <<sheet, cache, pc, text_input, last6, selected_label, df, matches,
          output, outcome, calls, prev>>

Init ==
    /\ sheet \in Sheets
    /\ cache = NoDf
    /\ pc = "AwaitingInput"
    /\ text_input = <<>>
    /\ last6 = <<>>
    /\ selected_label = PrelimGrade
    /\ df = NoDf
    /\ matches = NoMatches
    /\ output = <<>>
    /\ outcome = "none"
    /\ calls = <<>>
    /\ prev = NoPrev

\* st.stop(), or the end of the script
Stop(kind, page) ==
    /\ pc' = "Done"
    /\ outcome' = kind
    /\ output' = page

\* The form is submitted: Streamlit runs the script again from the top, on an
\* empty page.
Submit ==
    /\ pc \in {"AwaitingInput", "Done"}
    /\ \E q \in QueryInputs, label \in grade_labels :
          /\ text_input' = q
          /\ last6' = q
          /\ selected_label' = label
          /\ prev' = IF pc = "Done" /\ q = text_input /\ label = selected_label
                     THEN [st |-> "run", df |-> df, outcome |-> outcome,
                           output |-> output]
                     ELSE NoPrev
    /\ pc' = "Validating"
    /\ df' = NoDf
    /\ matches' = NoMatches
    /\ output' = <<>>
    /\ outcome' = "none"
    /\ calls' = <<>>
    /\ UNCHANGED <<sheet, cache>>

\* last6.isdigit() and len(last6) == 6
valid_query(q) == isdigit(q) /\ Len(q) = 6

\* Lines 71-74.
Validate ==
    /\ pc = "Validating"
    /\ calls' = Append(calls, "Validating")
    /\ last6' = strip(last6)
    /\ IF ~valid_query(strip(last6))
       THEN Stop("Error(InvalidQuery)",
                 <<Item("error", "enter exactly 6 digits", <<>>, <<>>, <<>>)>>)
       ELSE /\ pc' = "Loading"
            /\ UNCHANGED <<outcome, output>>
    /\ UNCHANGED <<sheet, cache, text_input, selected_label, df, matches, prev>>

\* The except block without st.exception(e).
load_failure_page_bare(e) ==
    <<Item("error", "Could not load the Google Sheet", <<>>, <<>>, <<>>)>>

\* Lines 78-81: st.error(...), st.exception(e)
load_failure_page(e) ==
    <<Item("error", "Could not load the Google Sheet", <<>>, <<>>, <<>>),
      Item("exception", e, <<>>, <<>>, <<>>)>>

\* Lines 76-81, a call that st.cache_data answers from its entry.
LoadCached ==
    /\ pc = "Loading"
    /\ cache # NoDf
    /\ calls' = Append(calls, "Loading")
    /\ df' = cache
    /\ pc' = "Resolving"
    /\ UNCHANGED <<sheet, cache, text_input, last6, selected_label, matches,
                   output, outcome, prev>>

\* Lines 76-81, a call that runs load_sheet and returns.
LoadFetched ==
    /\ pc = "Loading"
    /\ cache = NoDf
    /\ calls' = Append(calls, "Loading")
    /\ df' = OkDf(load_sheet(sheet))
    /\ cache' = OkDf(load_sheet(sheet))
    /\ pc' = "Resolving"
    /\ UNCHANGED <<sheet, text_input, last6, selected_label, matches, output,
                   outcome, prev>>

\* Lines 76-81, a call in which load_sheet raises e; nothing is cached.
LoadFailed ==
    /\ pc = "Loading"
    /\ cache = NoDf
    /\ calls' = Append(calls, "Loading")
    /\ \E e \in LoadErrors :
          /\ df' = ExcDf(e)
          /\ Stop("Error(LoadFailure)", load_failure_page(e))
    /\ UNCHANGED <<sheet, cache, text_input, last6, selected_label, matches, prev>>

\* The entry of st.cache_data(ttl=60) expires.
CacheExpire ==
    /\ cache # NoDf
    /\ cache' = NoDf
    /\ UNCHANGED <<sheet, pc, text_input, last6, selected_label, df, matches,
                   output, outcome, calls, prev>>

\* The column check without the grade column.
schema_page_id_only(d, label) ==
    IF ~HasColumn(d, ID_COL)
    THEN <<Item("error", "ID column not found", <<ID_COL>>, <<>>, <<>>),
           Item("write", "Columns found:", d.columns, <<>>, <<>>)>>
    ELSE <<>>

\* Lines 83-93: the page when a column the lookup needs is not in the sheet,
\* and no page when both are there.
schema_page(d, label) ==
    LET target_col == GRADE_COLUMNS[label] IN
    IF ~HasColumn(d, ID_COL)
    THEN <<Item("error", "ID column not found", <<ID_COL>>, <<>>, <<>>),
           Item("write", "Columns found:", d.columns, <<>>, <<>>)>>
    ELSE IF ~HasColumn(d, target_col)
    THEN <<Item("error", "Grade column not found", <<target_col, label>>, <<>>,
                <<>>),
           Item("write", "Columns found:", d.columns, <<>>, <<>>)>>
    ELSE <<>>

\* Lines 83-93.
Resolve ==
    /\ pc = "Resolving"
    /\ calls' = Append(calls, "Resolving")
    /\ IF schema_page(df, selected_label) # <<>>
       THEN Stop("Error(SchemaMismatch)", schema_page(df, selected_label))
       ELSE /\ pc' = "Matching"
            /\ UNCHANGED <<outcome, output>>
    /\ UNCHANGED <<sheet, cache, text_input, last6, selected_label, df, matches,
                   prev>>

\* matches.copy() in place of matches[cols].copy(): every column of the rows.
project_all(d, m, cols) == m

\* matches[cols]: the rows of m under the columns cols, in that order
project(d, m, cols) ==
    [r \in 1..Len(m) |-> [k \in 1..Len(cols) |-> row_get(d, m[r], cols[k])]]

\* safe_df.rename(columns={target_col: selected_label})
rename(cols, from, to) ==
    [k \in 1..Len(cols) |-> IF cols[k] = from THEN to ELSE cols[k]]

\* matches.iloc[0]: one row as a Series, which has one dtype.  Over columns
\* that are all numeric, one of them float64, the Series is float64 and the
\* ints of the row become integral floats; with an object column among them
\* the values stay as they are.
iloc0(d, m) ==
    LET cells == { d.rows[r][j] : r \in 1..Len(d.rows), j \in 1..Len(d.columns) } IN
    IF (\A c \in cells : IsNumeric(c)) /\ (\E c \in cells : c.t = "float")
    THEN [j \in 1..Len(m[1]) |->
            IF m[1][j].t = "int" THEN FloatCell(m[1][j].n, <<>>) ELSE m[1][j]]
    ELSE m[1]

\* The breakdown with the metrics looping over detail_cols in place of
\* present_cols: row.get(c, "") gives a missing column an empty value.
breakdown_page_all(d, m, label, target_col) ==
    LET detail_cols == grade_details_get(label)
        missing == SelectSeq(detail_cols, LAMBDA c : ~HasColumn(d, c))
        present_cols == SelectSeq(detail_cols, LAMBDA c : HasColumn(d, c))
        show_cols == <<ID_COL, target_col>> \o present_cols
    IN  IF detail_cols = <<>> THEN <<>>
        ELSE <<Item("subheader", "Breakdown (precomputed)", <<>>, <<>>, <<>>)>>
             \o (IF missing # <<>>
                 THEN <<Item("warning", "Some breakdown columns are missing",
                             missing, <<>>, <<>>)>>
                 ELSE <<>>)
             \o [k \in 1..Len(detail_cols) |->
                   Item("metric", "breakdown", <<detail_cols[k]>>,
                        py_str(row_get(d, iloc0(d, m), detail_cols[k])), <<>>)]
             \o <<Item("dataframe", "View breakdown as table",
                       rename(show_cols, target_col, label), <<>>,
                       project(d, m, show_cols))>>

\* Lines 121-144: the breakdown of the matching row.
breakdown_page(d, m, label, target_col) ==
    LET detail_cols == grade_details_get(label)
        missing == SelectSeq(detail_cols, LAMBDA c : ~HasColumn(d, c))
        present_cols == SelectSeq(detail_cols, LAMBDA c : HasColumn(d, c))
        show_cols == <<ID_COL, target_col>> \o present_cols
    IN  IF detail_cols = <<>> THEN <<>>
        ELSE <<Item("subheader", "Breakdown (precomputed)", <<>>, <<>>, <<>>)>>
             \o (IF missing # <<>>
                 THEN <<Item("warning", "Some breakdown columns are missing",
                             missing, <<>>, <<>>)>>
                 ELSE <<>>)
             \o [k \in 1..Len(present_cols) |->
                   Item("metric", "breakdown", <<present_cols[k]>>,
                        py_str(row_get(d, iloc0(d, m), present_cols[k])), <<>>)]
             \o <<Item("dataframe", "View breakdown as table",
                       rename(show_cols, target_col, label), <<>>,
                       project(d, m, show_cols))>>

IdNumber == <<"I", "D", " ", "N", "u", "m", "b", "e", "r">>

\* Lines 105-150: the page for the one matching row.
found_page(d, m, label) ==
    LET target_col == GRADE_COLUMNS[label]
        value == row_get(d, iloc0(d, m), target_col)
    IN  <<Item("success", "Record found", <<>>, <<>>, <<>>),
          Item("metric", "grade", <<label>>, py_str(value), <<>>)>>
        \o (IF lower(label) = prelim_grade
            THEN <<Item("info", "No rounding up or manual adjustment", <<>>, <<>>,
                        <<>>)>>
            ELSE <<>>)
        \o breakdown_page(d, m, label, target_col)
        \o <<Item("dataframe", "Details", <<IdNumber, label>>, <<>>,
                  project(d, m, <<ID_COL, target_col>>))>>

\* Lines 95-105: how the run ends on what find_student gave.
match_kind(res) ==
    IF res.raised THEN "UncaughtException"
    ELSE IF res.rows = <<>> THEN "Result(empty)"
    ELSE IF Len(res.rows) > 1 THEN "Result(ambiguous)"
    ELSE "Result(found)"

\* The page without the check for several rows: the first row is shown.
match_page_first(d, res, label) ==
    IF res.raised
    THEN <<Item("exception", "AttributeError", <<>>, <<>>, <<>>)>>
    ELSE IF res.rows = <<>>
    THEN <<Item("warning", "No record found", <<>>, <<>>, <<>>)>>
    ELSE found_page(d, res.rows, label)

\* Lines 95-150: the page on what find_student gave.  An exception nothing
\* catches ends the run, and Streamlit shows it on the page.
match_page(d, res, label) ==
    IF res.raised
    THEN <<Item("exception", "AttributeError", <<>>, <<>>, <<>>)>>
    ELSE IF res.rows = <<>>
    THEN <<Item("warning", "No record found", <<>>, <<>>, <<>>)>>
    ELSE IF Len(res.rows) > 1
    THEN <<Item("warning", "Multiple records matched", <<>>, <<>>, <<>>)>>
    ELSE found_page(d, res.rows, label)

\* The run with the display rename done in place on a frame the cache shares
\* with the script (rename(..., inplace=True) on a cached object).
MatchRenamesCached ==
    /\ pc = "Matching"
    /\ calls' = Append(calls, "Matching")
    /\ matches' = find_student(df, last6)
    /\ Stop(match_kind(find_student(df, last6)),
            match_page(df, find_student(df, last6), selected_label))
    /\ cache' = IF cache # NoDf /\ match_kind(find_student(df, last6)) = "Result(found)"
                THEN [cache EXCEPT !.columns =
                         rename(cache.columns, GRADE_COLUMNS[selected_label],
                                selected_label)]
                ELSE cache
    /\ UNCHANGED <<sheet, text_input, last6, selected_label, df, prev>>

\* Lines 95-150.
Match ==
    /\ pc = "Matching"
    /\ calls' = Append(calls, "Matching")
    /\ matches' = find_student(df, last6)
    /\ Stop(match_kind(find_student(df, last6)),
            match_page(df, find_student(df, last6), selected_label))
    /\ UNCHANGED <<sheet, cache, text_input, last6, selected_label, df, prev>>

Next ==
    \/ Submit
    \/ Validate
    \/ LoadCached
    \/ LoadFetched
    \/ LoadFailed
    \/ CacheExpire
    \/ Resolve
    \/ Match

Spec == Init /\ [][Next]_vars

(***************************************************************************)
(* Properties.                                                             *)
(***************************************************************************)
\* The run has entered the stage.
Ran(stage) == \E i \in 1..Len(calls) : calls[i] = stage

\* The roster has the ID column: one column carries the name.
HasTheIdColumn(d) == Cardinality(ColumnsNamed(d, ID_COL)) = 1

IdCell(d, r) == d.rows[r][CHOOSE j \in ColumnsNamed(d, ID_COL) : TRUE]

\* The rows of d whose normalized ID has six characters or more, the last six
\* of them being q.
MatchingRows(d, q) ==
    { r \in 1..Len(d.rows) :
        LET nid == normalize(IdCell(d, r)) IN
        /\ Len(nid) >= 6
        /\ \A i \in 1..6 : nid[Len(nid) - 6 + i] = q[i] }

\* The k-th smallest element of a set of numbers.
Kth(M, k) == CHOOSE m \in M : Cardinality({ x \in M : x <= m }) = k

\* Exactly six characters, each an ASCII digit.
AsciiSixDigits(q) == Len(q) = 6 /\ \A i \in 1..Len(q) : q[i] \in AsciiDigits

\* C1: on a roster with the ID column, find_student returns exactly the rows
\* whose normalized ID ends in the six characters of the query, in roster
\* order, none left out and none added, whether none, one or several match;
\* a row whose normalized ID is shorter than six characters is not returned.
C1_FindStudentExact ==
    (Ran("Matching") /\ HasTheIdColumn(df)) =>
        LET M == MatchingRows(df, last6) IN
        /\ ~matches.raised
        /\ Len(matches.rows) = Cardinality(M)
        /\ \A k \in 1..Len(matches.rows) : matches.rows[k] = df.rows[Kth(M, k)]
        /\ \A r \in 1..Len(df.rows) :
              Len(normalize(IdCell(df, r))) < 6 =>
                 \A k \in 1..Len(matches.rows) : matches.rows[k] # df.rows[r]

\* C1 witness: a two-row roster whose first row has a five-character
\* normalized ID and whose second row, a str ID with a letter before the
\* digits and a blank after, is the one row returned.
C1_Witness ==
    /\ Ran("Matching")
    /\ HasTheIdColumn(df)
    /\ AsciiSixDigits(last6)
    /\ Len(df.rows) = 2
    /\ Len(normalize(IdCell(df, 1))) = 5
    /\ IdCell(df, 2).t = "str"
    /\ matches.rows = <<df.rows[2]>>

\* C2: the submitted text passes Validating if and only if it is exactly six
\* characters, each an ASCII digit; any other text ends in Error(InvalidQuery).
C2_ValidatingAcceptsExactlyAsciiSixDigits ==
    Ran("Validating") =>
        ((outcome = "Error(InvalidQuery)") <=> ~AsciiSixDigits(text_input))

\* C3: when find_student returns more than one row, the run ends in
\* Result(ambiguous) and its page is the one notice: no cell of any row, no
\* column name, no value.
C3_AmbiguousDisclosesNothing ==
    (Ran("Matching") /\ HasTheIdColumn(df)
                     /\ Cardinality(MatchingRows(df, last6)) > 1) =>
        /\ pc = "Done"
        /\ outcome = "Result(ambiguous)"
        /\ Len(output) = 1
        /\ output[1].w = "warning"
        /\ output[1].msg = "Multiple records matched"
        /\ output[1].names = <<>>
        /\ output[1].value = <<>>
        /\ output[1].rows = <<>>

\* C3 witness: two rows that store the same last six digits in two ways, an
\* int and a float, both match.
C3_Witness ==
    /\ Ran("Matching")
    /\ HasTheIdColumn(df)
    /\ MatchingRows(df, last6) = {1, 2}
    /\ IdCell(df, 1) # IdCell(df, 2)
    /\ outcome = "Result(ambiguous)"

\* The breakdown columns configured for the label that the roster has not.
MissingDetails(d, label) ==
    { c \in { grade_details_get(label)[k] : k \in 1..Len(grade_details_get(label)) } :
        ~HasColumn(d, c) }

\* The breakdown columns configured for the label that the roster has.
PresentDetails(d, label) ==
    { c \in { grade_details_get(label)[k] : k \in 1..Len(grade_details_get(label)) } :
        HasColumn(d, c) }

\* The texts a metric may show for a cell: str() of the value, or of the same
\* number as a float.
DisplayTexts(c) ==
    {py_str(c)} \cup (IF c.t = "int" THEN {py_str(FloatCell(c.n, <<>>))} ELSE {})

\* The items of the page that show a cell: the metrics and the tables.
ShowsValues(item) == item.w \in {"success", "metric", "dataframe"}

\* C4: with the roster loaded, when the ID column or the grade column of the
\* selected label is not among its columns, the run ends in
\* Error(SchemaMismatch); the page names the missing column and lists the
\* columns of the roster; find_student is not called and nothing is shown.
C4_SchemaMismatchReported ==
    LET target_col == GRADE_COLUMNS[selected_label]
        absent == IF ~HasColumn(df, ID_COL) THEN ID_COL ELSE target_col
    IN  (Ran("Resolving") /\ (~HasColumn(df, ID_COL) \/ ~HasColumn(df, target_col))) =>
            /\ pc = "Done"
            /\ outcome = "Error(SchemaMismatch)"
            /\ \E i \in 1..Len(output) :
                  output[i].w = "error" /\ output[i].names[1] = absent
            /\ \E i \in 1..Len(output) :
                  output[i].w = "write" /\ output[i].names = df.columns
            /\ \A i \in 1..Len(output) : ~ShowsValues(output[i])
            /\ ~Ran("Matching")
            /\ matches = NoMatches

\* C4 witness: the roster has the ID column and a row the query matches, but
\* not the grade column of the selected label.
C4_Witness ==
    /\ Ran("Resolving")
    /\ HasTheIdColumn(df)
    /\ ~HasColumn(df, GRADE_COLUMNS[selected_label])
    /\ MatchingRows(df, last6) # {}
    /\ outcome = "Error(SchemaMismatch)"

\* C5: with one matching row and breakdown columns of the selected label
\* missing from the roster, the run still ends in Result(found): a metric for
\* every breakdown column the roster has, with the value of the matching row,
\* none for a missing one, and a warning that names the missing ones.
C5_MissingBreakdownDegrades ==
    (Ran("Matching") /\ HasTheIdColumn(df)
                     /\ Cardinality(MatchingRows(df, last6)) = 1
                     /\ MissingDetails(df, selected_label) # {}) =>
        LET r == CHOOSE x \in MatchingRows(df, last6) : TRUE IN
        /\ outcome = "Result(found)"
        /\ \A c \in PresentDetails(df, selected_label) :
              \E i \in 1..Len(output) :
                 /\ output[i].w = "metric"
                 /\ output[i].names = <<c>>
                 /\ output[i].value \in DisplayTexts(row_get(df, df.rows[r], c))
        /\ \A c \in MissingDetails(df, selected_label) :
              \A i \in 1..Len(output) :
                 ShowsValues(output[i]) =>
                    \A k \in 1..Len(output[i].names) : output[i].names[k] # c
        /\ \E i \in 1..Len(output) :
              /\ output[i].w = "warning"
              /\ { output[i].names[k] : k \in 1..Len(output[i].names) }
                    = MissingDetails(df, selected_label)

\* C5 witness: a found row on a roster that has one breakdown column and
\* lacks two.
C5_Witness ==
    /\ outcome = "Result(found)"
    /\ PresentDetails(df, selected_label) # {}
    /\ Cardinality(MissingDetails(df, selected_label)) = 2

\* C6: in Result(found) every value on the page is a cell of the one matching
\* row under the ID column, the grade column of the selected label or a
\* breakdown column of the label that the roster has; no other column of the
\* row and no cell of another row is on the page.
C6_FoundShowsOnlyProjection ==
    (outcome = "Result(found)") =>
        LET r == CHOOSE x \in MatchingRows(df, last6) : TRUE
            allowed == {ID_COL, GRADE_COLUMNS[selected_label]}
                          \cup PresentDetails(df, selected_label)
            cells == { row_get(df, df.rows[r], c) : c \in allowed }
        IN  /\ MatchingRows(df, last6) = {r}
            /\ \A i \in 1..Len(output) :
                  /\ output[i].w = "metric" =>
                        output[i].value \in UNION { DisplayTexts(c) : c \in cells }
                  /\ output[i].w # "metric" => output[i].value = <<>>
                  /\ \A k \in 1..Len(output[i].rows) :
                        \A j \in 1..Len(output[i].rows[k]) :
                           output[i].rows[k][j] \in cells

\* C6 witness: a found row of a two-row roster that has a column outside the
\* configuration, with the grade and a breakdown value on the page.
C6_Witness ==
    /\ outcome = "Result(found)"
    /\ Len(df.rows) = 2
    /\ HasColumn(df, <<"E", "m", "a", "i", "l">>)
    /\ PresentDetails(df, selected_label) # {}
    /\ \E i \in 1..Len(output) : output[i].w = "dataframe" /\ Len(output[i].rows) = 1

\* C7: when load_sheet raises, the run ends in Error(LoadFailure) with the
\* exception on the page; nothing is raised further, no column is resolved,
\* find_student is not called and nothing is shown.
C7_LoadFailureReported ==
    (df.st = "exc") =>
        /\ pc = "Done"
        /\ outcome = "Error(LoadFailure)"
        /\ \E i \in 1..Len(output) :
              output[i].w = "exception" /\ output[i].msg = df.exc
        /\ \A i \in 1..Len(output) : ~ShowsValues(output[i])
        /\ calls = <<"Validating", "Loading">>
        /\ matches = NoMatches

\* C7 witness: load_sheet raises on a sheet that has a row the query matches.
C7_Witness ==
    /\ df.st = "exc"
    /\ df.exc = "SpreadsheetNotFound"
    /\ HasTheIdColumn(load_sheet(sheet))
    /\ MatchingRows(load_sheet(sheet), last6) # {}
    /\ outcome = "Error(LoadFailure)"

\* C8: a run that repeats the submission of the run before it (the same text
\* and the same label), with load_sheet ending the same way in both, ends as
\* that run did, with the same page; and no run changes the roster: the frame
\* the run holds, and the one the cache holds, are the sheet as load_sheet
\* reads it.
C8_Idempotent ==
    /\ (pc = "Done" /\ prev.st = "run" /\ prev.df.st = df.st /\ prev.df.exc = df.exc) =>
          /\ prev.outcome = outcome
          /\ prev.output = output
    /\ df.st = "ok" => df = OkDf(load_sheet(sheet))
    /\ cache # NoDf => cache = OkDf(load_sheet(sheet))

\* C8 witness: a run that found a row is repeated and has found it again, the
\* second time on the cached roster.
C8_Witness ==
    /\ pc = "Done"
    /\ prev.st = "run"
    /\ prev.outcome = "Result(found)"
    /\ outcome = "Result(found)"
    /\ cache # NoDf

\* C9: the normalized ID of every ID cell is a string with no blank at either
\* end; that of an empty cell is the empty string, and a row with an empty ID
\* cell is not among the rows find_student returns.
C9_NormalizerTotal ==
    (df.st = "ok" /\ HasTheIdColumn(df)) =>
        \A r \in 1..Len(df.rows) :
           LET c == IdCell(df, r)
               nid == normalize(c)
           IN  /\ \A i \in 1..Len(nid) : nid[i] \in STRING
               /\ nid = <<>> \/ (nid[1] \notin Whitespace /\ nid[Len(nid)] \notin Whitespace)
               /\ (c.t = "str" /\ c.s = <<>>) =>
                     /\ nid = <<>>
                     /\ \A k \in 1..Len(matches.rows) : matches.rows[k] # df.rows[r]

\* C9 witness: find_student has run on a roster with an empty ID cell in one
\* row and has returned the other row.
C9_Witness ==
    /\ Ran("Matching")
    /\ HasTheIdColumn(df)
    /\ \E r \in 1..Len(df.rows) : IdCell(df, r) = StrCell(<<>>)
    /\ Len(matches.rows) = 1

StageOrder == <<"Validating", "Loading", "Resolving", "Matching">>

\* The stage in which each outcome is reached.
StageOf ==
    [ o \in {"Error(InvalidQuery)", "Error(LoadFailure)", "Error(SchemaMismatch)",
             "Result(empty)", "Result(found)", "Result(ambiguous)"} |->
        CASE o = "Error(InvalidQuery)" -> 1
          [] o = "Error(LoadFailure)" -> 2
          [] o = "Error(SchemaMismatch)" -> 3
          [] OTHER -> 4 ]

\* C10: every run goes through Validating, Loading, Resolving, Matching in
\* that order, stops at the first stage that fails and ends in one of the six
\* outcomes, the one of the stage it stopped in; load_sheet is not called for
\* a text that is not six ASCII digits, and find_student is not called unless
\* the ID column and the grade column are in the roster.
C10_StagesInOrder ==
    /\ Len(calls) <= Len(StageOrder)
    /\ calls = SubSeq(StageOrder, 1, Len(calls))
    /\ pc # "Done" => outcome = "none"
    /\ pc = "Done" =>
          /\ outcome \in DOMAIN StageOf
          /\ StageOf[outcome] = Len(calls)
    /\ Ran("Loading") => AsciiSixDigits(text_input)
    /\ Ran("Matching") =>
          HasColumn(df, ID_COL) /\ HasColumn(df, GRADE_COLUMNS[selected_label])

====
